---- MODULE Spec2Model ----
(***************************************************************************)
(* HashVote: proof-of-work vote ledger (app/pow.py, app/main.py,           *)
(* app/cli.py, app/models.py).                                             *)
(*                                                                         *)
(* Strings are TLA+ strings; the f-string of hash_block is a real          *)
(* concatenation.  SHA-256 is modelled symbolically: a digest is the       *)
(* string "<" data ">" (collision-free by construction), and its integer   *)
(* value int(digest, 16) is a fixed function of the data, scaled from 256  *)
(* to HashBits bits so that 2 ** (HashBits - difficulty_bits) is a         *)
(* machine integer.                                                        *)
(***************************************************************************)
EXTENDS Integers, Sequences, FiniteSets, TLC

----------------------------------------------------------------------------
(* Bounds of the model                                                     *)

HashBits == 24
MaxTime == 2
MaxNonce == 2
MaxBlocks == 2

(* Python's None where an int is expected (a nonce) *)
None == -1

----------------------------------------------------------------------------
(* app/pow.py                                                              *)

Pow2(n) == 2 ^ n

(* runs of ASCII characters, each with the code point before its first *)
AsciiRuns ==
    << <<42, "+,-./0123456789:;<=>?@ABCDEFGHIJKLMNOPQRSTUVWXYZ[">>,
       <<92, "]^_">>,
       <<96, "abcdefghijklmnopqrstuvwxyz">> >>

(* ord() of every character of AsciiRuns *)
OrdTable ==
    LET at(r, i) == SubSeq(AsciiRuns[r][2], i, i)
        places == {<<r, i>> \in (1..Len(AsciiRuns)) \X (1..64) :
                      i <= Len(AsciiRuns[r][2])}
    IN  [c \in {at(p[1], p[2]) : p \in places} |->
            LET p == CHOOSE q \in places : at(q[1], q[2]) = c
            IN  AsciiRuns[p[1]][1] + p[2]]

ord(c) == OrdTable[c]

(* the sum of the code points of data[lo..hi], by halves *)
RECURSIVE CodeSum(_, _, _)
CodeSum(data, lo, hi) ==
    IF lo > hi THEN 0
    ELSE IF lo = hi THEN ord(SubSeq(data, lo, lo))
    ELSE LET mid == (lo + hi) \div 2
         IN  CodeSum(data, lo, mid) + CodeSum(data, mid + 1, hi)

(* every character of data takes part in the digest's value *)
Mix(data) == CodeSum(data, 1, Len(data))

(* The leading-zero-bit counts the modelled digests take: below every      *)
(* difficulty, the test admission difficulty 6, and the default            *)
(* difficulty 18.                                                          *)
LeadingZeros == <<0, 6, 18>>

sha256_hexdigest(data) == "<" \o data \o ">"

(* int(hexdigest, 16) of the digest of data *)
sha256_int(data) ==
    Pow2(HashBits - LeadingZeros[(Mix(data) % Len(LeadingZeros)) + 1]) - 1

(* datetime.isoformat(): an aware datetime carries its UTC offset *)
isoformat(timestamp) ==
    "T" \o ToString(timestamp.t) \o (IF timestamp.aware THEN "+00:00" ELSE "")

str(nonce) == ToString(nonce)

(* a preimage that leaves the choice out *)
block_data_nochoice(poll_id, voter_hash, choice, timestamp, prev_hash, nonce) ==
    poll_id \o voter_hash \o isoformat(timestamp) \o prev_hash \o str(nonce)

block_data(poll_id, voter_hash, choice, timestamp, prev_hash, nonce) ==
    poll_id \o voter_hash \o choice \o isoformat(timestamp) \o prev_hash \o str(nonce)

hash_block(poll_id, voter_hash, choice, timestamp, prev_hash, nonce) ==
    sha256_hexdigest(block_data(poll_id, voter_hash, choice, timestamp, prev_hash, nonce))

hash_int(poll_id, voter_hash, choice, timestamp, prev_hash, nonce) ==
    sha256_int(block_data(poll_id, voter_hash, choice, timestamp, prev_hash, nonce))

(* a check that asks for exactly difficulty_bits leading zero bits *)
verify_pow_exact(poll_id, voter_hash, choice, timestamp, prev_hash, nonce, difficulty_bits) ==
    LET target == Pow2(HashBits - difficulty_bits)
        h == hash_int(poll_id, voter_hash, choice, timestamp, prev_hash, nonce)
    IN  h < target /\ 2 * h + 1 >= target

(* a check against the default 18-bit target whatever difficulty is asked *)
verify_pow_default(poll_id, voter_hash, choice, timestamp, prev_hash, nonce, difficulty_bits) ==
    hash_int(poll_id, voter_hash, choice, timestamp, prev_hash, nonce) < Pow2(HashBits - 18)

verify_pow(poll_id, voter_hash, choice, timestamp, prev_hash, nonce, difficulty_bits) ==
    LET target == Pow2(HashBits - difficulty_bits)
    IN  hash_int(poll_id, voter_hash, choice, timestamp, prev_hash, nonce) < target

(* compute_nonce: scan nonce = 0, 1, 2, ...; budget is the number of       *)
(* candidates the wall clock lets the loop test before the deadline.       *)
(* a scan that returns the candidate it had reached when the deadline passed *)
RECURSIVE scan_candidate(_, _, _, _, _, _, _, _)
scan_candidate(poll_id, voter_hash, choice, timestamp, prev_hash, difficulty_bits, budget, nonce) ==
    IF budget = 0 THEN nonce
    ELSE IF hash_int(poll_id, voter_hash, choice, timestamp, prev_hash, nonce)
              < Pow2(HashBits - difficulty_bits)
         THEN nonce
         ELSE scan_candidate(poll_id, voter_hash, choice, timestamp, prev_hash,
                             difficulty_bits, budget - 1, nonce + 1)

RECURSIVE scan(_, _, _, _, _, _, _, _)
scan(poll_id, voter_hash, choice, timestamp, prev_hash, difficulty_bits, budget, nonce) ==
    IF budget = 0 THEN None
    ELSE IF hash_int(poll_id, voter_hash, choice, timestamp, prev_hash, nonce)
              < Pow2(HashBits - difficulty_bits)
         THEN nonce
         ELSE scan(poll_id, voter_hash, choice, timestamp, prev_hash,
                   difficulty_bits, budget - 1, nonce + 1)

(* a search that returns its first candidate without testing it *)
compute_nonce_untested(poll_id, voter_hash, choice, timestamp, prev_hash, difficulty_bits, budget) ==
    IF budget = 0 THEN None ELSE 0

(* a search that starts at nonce 1 *)
compute_nonce_from1(poll_id, voter_hash, choice, timestamp, prev_hash, difficulty_bits, budget) ==
    scan(poll_id, voter_hash, choice, timestamp, prev_hash, difficulty_bits, budget, 1)

compute_nonce(poll_id, voter_hash, choice, timestamp, prev_hash, difficulty_bits, budget) ==
    scan(poll_id, voter_hash, choice, timestamp, prev_hash, difficulty_bits, budget, 0)

RECURSIVE repeat(_, _)
repeat(s, n) == IF n <= 0 THEN "" ELSE s \o repeat(s, n - 1)

HexDigits == "0123456789abcdef"

hex02(x) ==
    SubSeq(HexDigits, (x \div 16) + 1, (x \div 16) + 1)
        \o SubSeq(HexDigits, (x % 16) + 1, (x % 16) + 1)

(* a target of whole bytes: the partial byte is left out *)
get_difficulty_target_bytes(difficulty_bits) ==
    repeat("00", difficulty_bits \div 8) \o repeat("ff", 32 - (difficulty_bits \div 8))

(* a target whose partial byte is followed by as many ff bytes as a whole one *)
get_difficulty_target_long(difficulty_bits) ==
    LET leading_zero_bytes == difficulty_bits \div 8
        remaining_bits == difficulty_bits % 8
    IN  repeat("00", leading_zero_bytes)
            \o (IF remaining_bits > 0 THEN hex02(Pow2(8 - remaining_bits) - 1) ELSE "")
            \o repeat("ff", 32 - leading_zero_bytes)

get_difficulty_target(difficulty_bits) ==
    LET leading_zero_bytes == difficulty_bits \div 8
        remaining_bits == difficulty_bits % 8
        max_val_for_remaining == Pow2(8 - remaining_bits) - 1
    IN  IF remaining_bits > 0
        THEN repeat("00", leading_zero_bytes) \o hex02(max_val_for_remaining)
                 \o repeat("ff", 31 - leading_zero_bytes)
        ELSE repeat("00", leading_zero_bytes) \o repeat("ff", 32 - leading_zero_bytes)

----------------------------------------------------------------------------
(* Inputs                                                                  *)

VoterIds == {"u1", "u2"}

(* the (poll_id, choice, voter_id) triples voters submit: two choices of   *)
(* one voter in a test poll, a second voter in that poll, and the first    *)
(* voter in an ordinary poll                                               *)
Ballots ==
    {<<"test_a", "y", "u1">>, <<"test_a", "n", "u1">>,
     <<"test_a", "n", "u2">>, <<"b", "y", "u1">>}

Polls == {b[1] : b \in Ballots}
Nonces == 0..MaxNonce
Times == 1..MaxTime

ApiProcs == {"api1", "api2"}
CliProcs == {"cli1"}

(* the processes sharing the database file: two API processes, or one      *)
(* API process and the console application                                 *)
Deployments == {{"api1", "api2"}, {"api1", "cli1"}}

GENESIS == repeat("0", 64)

startswith(s, prefix) ==
    Len(s) >= Len(prefix) /\ SubSeq(s, 1, Len(prefix)) = prefix

----------------------------------------------------------------------------
(* app/models.py, app/database.py: the blocks table                        *)

VARIABLES
    ledger,     \* the rows of table blocks, in id order
    now,        \* the wall clock
    api,        \* per API process: the /vote request being handled
    cli,        \* per CLI process: the handle_vote call in progress
    last,       \* the last response or console outcome, with the call it answers
    backup      \* the backup file of the database, once one was written

vars == <<ledger, now, api, cli, last, backup>>

(* no backup file exists *)
NoBackup == [exists |-> FALSE, rows |-> <<>>]

(* A DateTime column of SQLite stores no UTC offset: a row read back has   *)
(* a naive timestamp.                                                      *)
DbDateTime(timestamp) == [t |-> timestamp.t, aware |-> FALSE]


Block(poll_id, voter_hash, choice, timestamp, prev_hash, nonce, block_hash) ==
    [poll_id |-> poll_id, voter_hash |-> voter_hash, choice |-> choice,
     timestamp |-> timestamp, prev_hash |-> prev_hash, nonce |-> nonce,
     block_hash |-> block_hash]

NoBlock == Block("", "", "", [t |-> 0, aware |-> FALSE], "", None, "")

(* a table without the constraint on the pair *)
unique_vote_dropped(rows, block) == TRUE

(* UniqueConstraint("poll_id", "voter_hash", name="unique_vote") *)
unique_vote(rows, block) ==
    \A i \in 1..Len(rows) :
        ~(rows[i].poll_id = block.poll_id /\ rows[i].voter_hash = block.voter_hash)

(* block_hash: Field(unique=True) *)
unique_block_hash(rows, block) ==
    \A i \in 1..Len(rows) : rows[i].block_hash /= block.block_hash

ConstraintsHold(rows, block) ==
    unique_vote(rows, block) /\ unique_block_hash(rows, block)

(* session.add(block); session.commit(): the row gets the next id *)
Insert(rows, block) ==
    Append(rows, [id |-> Len(rows) + 1,
                  poll_id |-> block.poll_id, voter_hash |-> block.voter_hash,
                  choice |-> block.choice, timestamp |-> DbDateTime(block.timestamp),
                  prev_hash |-> block.prev_hash, nonce |-> block.nonce,
                  block_hash |-> block.block_hash])

(* a rollback that keeps the row the failed insert was writing *)
rollback_partial(rows, block) == Insert(rows, block)

(* session.rollback(): the pending row is discarded *)
rollback(rows, block) == rows

(* select(Block).where(Block.poll_id == poll_id).order_by(Block.id) *)
PollBlocks(rows, poll_id) == SelectSeq(rows, LAMBDA b : b.poll_id = poll_id)

(* a query that orders by id ascending: the oldest block of the poll *)
get_latest_block_hash_asc(rows, poll_id) ==
    LET blocks == PollBlocks(rows, poll_id)
    IN  IF Len(blocks) > 0 THEN blocks[1].block_hash ELSE GENESIS

get_latest_block_hash(rows, poll_id) ==
    LET blocks == PollBlocks(rows, poll_id)
    IN  IF Len(blocks) > 0 THEN blocks[Len(blocks)].block_hash ELSE GENESIS

(* a duplicate check that looks for the voter in every poll *)
existing_vote_anypoll(rows, poll_id, voter_hash) ==
    \E i \in 1..Len(rows) : rows[i].voter_hash = voter_hash

(* a handler without the duplicate check *)
existing_vote_skipped(rows, poll_id, voter_hash) == FALSE

existing_vote(rows, poll_id, voter_hash) ==
    \E i \in 1..Len(rows) :
        rows[i].poll_id = poll_id /\ rows[i].voter_hash = voter_hash

(* difficulty = 6 if poll_id.startswith("test_") else 18 *)
admission_difficulty(poll_id) == IF startswith(poll_id, "test_") THEN 6 ELSE 18

(* a walk that does not recompute block_hash *)
RECURSIVE verify_walk_nohash(_, _, _, _)
verify_walk_nohash(blocks, i, prev_hash, difficulty_bits) ==
    IF i > Len(blocks) THEN TRUE
    ELSE LET block == blocks[i]
         IN  IF ~verify_pow(block.poll_id, block.voter_hash, block.choice,
                            block.timestamp, block.prev_hash, block.nonce,
                            difficulty_bits)
             THEN FALSE
             ELSE IF block.prev_hash /= prev_hash
             THEN FALSE
             ELSE verify_walk_nohash(blocks, i + 1, block.block_hash, difficulty_bits)

(* a walk that does not compare prev_hash with the block before *)
RECURSIVE verify_walk_nolink(_, _, _, _)
verify_walk_nolink(blocks, i, prev_hash, difficulty_bits) ==
    IF i > Len(blocks) THEN TRUE
    ELSE LET block == blocks[i]
         IN  IF ~verify_pow(block.poll_id, block.voter_hash, block.choice,
                            block.timestamp, block.prev_hash, block.nonce,
                            difficulty_bits)
             THEN FALSE
             ELSE IF block.block_hash /= hash_block(block.poll_id, block.voter_hash,
                                                    block.choice, block.timestamp,
                                                    block.prev_hash, block.nonce)
             THEN FALSE
             ELSE verify_walk_nolink(blocks, i + 1, block.block_hash, difficulty_bits)

RECURSIVE verify_walk(_, _, _, _)
verify_walk(blocks, i, prev_hash, difficulty_bits) ==
    IF i > Len(blocks) THEN TRUE
    ELSE LET block == blocks[i]
         IN  IF ~verify_pow(block.poll_id, block.voter_hash, block.choice,
                            block.timestamp, block.prev_hash, block.nonce,
                            difficulty_bits)
             THEN FALSE
             ELSE IF block.block_hash /= hash_block(block.poll_id, block.voter_hash,
                                                    block.choice, block.timestamp,
                                                    block.prev_hash, block.nonce)
             THEN FALSE
             ELSE IF block.prev_hash /= prev_hash
             THEN FALSE
             ELSE verify_walk(blocks, i + 1, block.block_hash, difficulty_bits)

(* a verification that does not accept a poll without blocks *)
verify_chain_integrity_nonempty(rows, poll_id, difficulty_bits) ==
    LET blocks == PollBlocks(rows, poll_id)
    IN  IF Len(blocks) = 0 THEN FALSE
        ELSE verify_walk(blocks, 1, GENESIS, difficulty_bits)

verify_chain_integrity(rows, poll_id, difficulty_bits) ==
    LET blocks == PollBlocks(rows, poll_id)
    IN  IF Len(blocks) = 0 THEN TRUE
        ELSE verify_walk(blocks, 1, GENESIS, difficulty_bits)


----------------------------------------------------------------------------
(* POST /vote (app/main.py submit_vote), one handler per API process.      *)
(* A handler takes two steps: its SELECTs and the checks on them, then its *)
(* INSERT; the commits of other processes fall between the two.            *)

RequiredFields == <<"poll_id", "choice", "voter_hash">>

Phase1Body(b) ==
    [poll_id |-> b[1], choice |-> b[2], voter_hash |-> sha256_hexdigest(b[3])]

Phase2Body(b, nonce) ==
    [poll_id |-> b[1], choice |-> b[2], voter_hash |-> sha256_hexdigest(b[3]),
     nonce |-> nonce]

(* the JSON bodies clients send: Phase 1 (no nonce, or a null nonce; a     *)
(* third voter only asks for quotes), Phase 2 (a nonce), and bodies        *)
(* lacking some of the required fields                                     *)
WellFormed ==
    {Phase1Body(b) : b \in Ballots \cup {<<"test_a", "y", "u3">>}}
        \cup {Phase2Body(b, n) : b \in Ballots, n \in Nonces}
        \cup {Phase2Body(<<"test_a", "y", "u1">>, None)}

Malformed ==
    {[k \in (DOMAIN d) \ missing |-> d[k]] :
        d \in {Phase1Body(<<"test_a", "y", "u1">>), Phase2Body(<<"test_a", "y", "u1">>, 0)},
        missing \in (SUBSET {RequiredFields[i] : i \in 1..3}) \ {{}}}

VoteData == WellFormed \cup Malformed

MissingFields(vote_data) ==
    {i \in 1..Len(RequiredFields) : RequiredFields[i] \notin DOMAIN vote_data}

(* a handler that always names the first required field *)
FirstMissing_first(vote_data) == RequiredFields[1]

FirstMissing(vote_data) ==
    RequiredFields[CHOOSE i \in MissingFields(vote_data) :
                       \A j \in MissingFields(vote_data) : i <= j]

IsPhase1(vote_data) ==
    IF "nonce" \in DOMAIN vote_data THEN vote_data["nonce"] = None ELSE TRUE

Response(status, detail, difficulty_target, prev_hash, message) ==
    [status |-> status, detail |-> detail, difficulty_target |-> difficulty_target,
     prev_hash |-> prev_hash, message |-> message]

HTTPException(status, detail) == Response(status, detail, "", "", "")

(* seen: the number of rows the table had when the handler read it *)
ApiIdle ==
    [pc |-> "idle", vote_data |-> [poll_id |-> ""], seen |-> 0, block |-> NoBlock]

NoEvent == [kind |-> "none"]

Get(vote_data, field) ==
    IF field \in DOMAIN vote_data THEN vote_data[field] ELSE ""

(* the handler h of process w returns resp; last keeps the response and    *)
(* whose request it answers                                                *)
ApiReturn(w, h, resp) ==
    /\ api' = [api EXCEPT ![w] = ApiIdle]
    /\ last' = [kind |-> "api", proc |-> w,
                poll_id |-> Get(h.vote_data, "poll_id"),
                voter_hash |-> Get(h.vote_data, "voter_hash"),
                phase |-> IF IsPhase1(h.vote_data) THEN 1 ELSE 2,
                resp |-> resp]

(* a handler that takes the tip a Phase-1 response quoted for the empty poll *)
Phase2Tip_quoted(rows, poll_id) == GENESIS

(* line 159: prev_hash = get_latest_block_hash(session, poll_id) *)
Phase2Tip(rows, poll_id) == get_latest_block_hash(rows, poll_id)

(* a Phase 2 that builds the block without calling verify_pow *)
Phase2_unverified(w, vote_submission) ==
    LET prev_hash == Phase2Tip(ledger, vote_submission.poll_id)
        current_time == [t |-> now, aware |-> FALSE]
    IN  /\ api' = [api EXCEPT ![w] =
                [ApiIdle EXCEPT !.pc = "commit",
                                !.vote_data = vote_submission,
                                !.seen = Len(ledger),
                                !.block = Block(vote_submission.poll_id,
                                    vote_submission.voter_hash, vote_submission.choice,
                                    current_time, prev_hash, vote_submission.nonce,
                                    hash_block(vote_submission.poll_id,
                                        vote_submission.voter_hash, vote_submission.choice,
                                        current_time, prev_hash, vote_submission.nonce))]]
        /\ last' = last

(* lines 155-189: Phase 2 re-reads the tip, samples the clock, verifies    *)
(* the proof of work and builds the block                                  *)
Phase2(w, vote_submission) ==
    LET prev_hash == Phase2Tip(ledger, vote_submission.poll_id)
        current_time == [t |-> now, aware |-> FALSE]
        difficulty == admission_difficulty(vote_submission.poll_id)
        h == [ApiIdle EXCEPT !.vote_data = vote_submission,
                             !.seen = Len(ledger),
                             !.block = Block(vote_submission.poll_id,
                                 vote_submission.voter_hash, vote_submission.choice,
                                 current_time, prev_hash, vote_submission.nonce, "")]
    IN  IF ~verify_pow(vote_submission.poll_id, vote_submission.voter_hash,
                       vote_submission.choice, current_time, prev_hash,
                       vote_submission.nonce, difficulty)
        THEN ApiReturn(w, h, HTTPException(400, "Invalid proof of work"))
        ELSE /\ api' = [api EXCEPT ![w] =
                     [h EXCEPT !.pc = "commit",
                               !.block.block_hash =
                                   hash_block(vote_submission.poll_id,
                                       vote_submission.voter_hash, vote_submission.choice,
                                       current_time, prev_hash, vote_submission.nonce)]]
             /\ last' = last

(* a handler that verifies the proof of work before it looks for the pair *)
ApiVote_pow_first(w, vote_data) ==
    /\ last = NoEvent
    /\ api[w].pc = "idle"
    /\ Len(ledger) < MaxBlocks \/ (vote_data \in WellFormed /\ IsPhase1(vote_data))
    /\ LET h == [ApiIdle EXCEPT !.vote_data = vote_data, !.seen = Len(ledger)]
       IN  IF MissingFields(vote_data) /= {}
           THEN ApiReturn(w, h, HTTPException(422,
                    "Missing required field: " \o FirstMissing(vote_data)))
           ELSE IF IsPhase1(vote_data)
           THEN IF existing_vote(ledger, vote_data.poll_id, vote_data.voter_hash)
                THEN ApiReturn(w, h, HTTPException(409, "Voter has already voted in this poll"))
                ELSE ApiReturn(w, h, Response(200, "", get_difficulty_target(18),
                         get_latest_block_hash(ledger, vote_data.poll_id),
                         "Compute nonce with 18-bit leading zero requirement"))
           ELSE IF ~verify_pow(vote_data.poll_id, vote_data.voter_hash, vote_data.choice,
                               [t |-> now, aware |-> FALSE],
                               Phase2Tip(ledger, vote_data.poll_id), vote_data.nonce,
                               admission_difficulty(vote_data.poll_id))
           THEN ApiReturn(w, h, HTTPException(400, "Invalid proof of work"))
           ELSE IF existing_vote(ledger, vote_data.poll_id, vote_data.voter_hash)
           THEN ApiReturn(w, h, HTTPException(409, "Voter has already voted in this poll"))
           ELSE Phase2(w, vote_data)
    /\ UNCHANGED <<ledger, now, cli, backup>>

(* lines 122-189: submit_vote up to the insert *)
ApiVote(w, vote_data) ==
    /\ last = NoEvent
    /\ api[w].pc = "idle"
    /\ Len(ledger) < MaxBlocks \/ (vote_data \in WellFormed /\ IsPhase1(vote_data))
    /\ LET h == [ApiIdle EXCEPT !.vote_data = vote_data, !.seen = Len(ledger)]
       IN  IF MissingFields(vote_data) /= {}
           THEN ApiReturn(w, h, HTTPException(422,
                    "Missing required field: " \o FirstMissing(vote_data)))
           ELSE IF existing_vote(ledger, vote_data.poll_id, vote_data.voter_hash)
           THEN ApiReturn(w, h, HTTPException(409, "Voter has already voted in this poll"))
           ELSE IF IsPhase1(vote_data)
           THEN ApiReturn(w, h, Response(200, "", get_difficulty_target(18),
                    get_latest_block_hash(ledger, vote_data.poll_id),
                    "Compute nonce with 18-bit leading zero requirement"))
           ELSE Phase2(w, vote_data)
    /\ UNCHANGED <<ledger, now, cli, backup>>

(* the text of the sqlite3.IntegrityError the insert raises *)
IntegrityErrorText(rows, block) ==
    IF ~unique_vote(rows, block)
    THEN "UNIQUE constraint failed: blocks.poll_id, blocks.voter_hash"
    ELSE "UNIQUE constraint failed: blocks.block_hash"

(* lines 191-206: the insert; any exception is rolled back and answered 500 *)
ApiCommit(w) ==
    /\ last = NoEvent
    /\ api[w].pc = "commit"
    /\ IF ConstraintsHold(ledger, api[w].block)
       THEN /\ ledger' = Insert(ledger, api[w].block)
            /\ ApiReturn(w, api[w], Response(200, "", "", "", "Vote successfully recorded"))
       ELSE /\ ledger' = rollback(ledger, api[w].block)
            /\ ApiReturn(w, api[w], HTTPException(500,
                   "Failed to save vote: " \o IntegrityErrorText(ledger, api[w].block)))
    /\ UNCHANGED <<now, cli, backup>>

----------------------------------------------------------------------------
(* HashVoteCLI.handle_vote (app/cli.py), one call per CLI process, in the  *)
(* same two steps                                                          *)

CliIdle ==
    [pc |-> "idle", poll_id |-> "", choice |-> "", voter_hash |-> "", seen |-> 0,
     difficulty_target |-> "", block |-> NoBlock]

(* handle_vote of process c returns after printing out *)
CliReturn(c, h, out) ==
    /\ cli' = [cli EXCEPT ![c] = CliIdle]
    /\ last' = [kind |-> "cli", proc |-> c, poll_id |-> h.poll_id,
                voter_hash |-> h.voter_hash, out |-> out]

(* the prev_hash handle_vote verifies and commits with after the search:   *)
(* the local it read before the search (line 165)                          *)
CliCommitTip(prev_hash, rows, poll_id) == prev_hash

(* lines 164-231: the tip, the timestamp, compute_nonce with timeout=30.0, *)
(* verify_pow and hash_block; budget is the number of candidates tested    *)
(* before the 30 s are over                                                *)
CliProve(c, h, budget) ==
    LET prev_hash == get_latest_block_hash(ledger, h.poll_id)
        timestamp == [t |-> now, aware |-> TRUE]
        difficulty == admission_difficulty(h.poll_id)
        nonce == compute_nonce(h.poll_id, h.voter_hash, h.choice, timestamp,
                               prev_hash, difficulty, budget)
        found == [h EXCEPT !.difficulty_target = get_difficulty_target(18),
                           !.block = Block(h.poll_id, h.voter_hash, h.choice, timestamp,
                                           CliCommitTip(prev_hash, ledger, h.poll_id),
                                           nonce, "")]
    IN  IF nonce = None
        THEN CliReturn(c, found, "nonce timeout")
        ELSE IF ~verify_pow(h.poll_id, h.voter_hash, h.choice, timestamp,
                            found.block.prev_hash, nonce, difficulty)
        THEN CliReturn(c, found, "pow failed")
        ELSE /\ cli' = [cli EXCEPT ![c] =
                     [found EXCEPT !.pc = "commit",
                                   !.block.block_hash =
                                       hash_block(h.poll_id, h.voter_hash, h.choice,
                                                  timestamp, found.block.prev_hash, nonce)]]
             /\ last' = last

(* lines 137-231: handle_vote up to the insert *)
CliVote(c, poll_id, choice, voter_id, budget) ==
    /\ last = NoEvent
    /\ cli[c].pc = "idle"
    /\ Len(ledger) < MaxBlocks
    /\ LET voter_hash == sha256_hexdigest(voter_id)
           h == [CliIdle EXCEPT !.poll_id = poll_id, !.choice = choice,
                                !.seen = Len(ledger)]
       IN  IF poll_id = ""
           THEN CliReturn(c, h, "poll_id required")
           ELSE IF choice = ""
           THEN CliReturn(c, h, "choice required")
           ELSE IF voter_id = ""
           THEN CliReturn(c, h, "voter_id required")
           ELSE IF existing_vote(ledger, poll_id, voter_hash)
           THEN CliReturn(c, [h EXCEPT !.voter_hash = voter_hash], "already voted")
           ELSE CliProve(c, [h EXCEPT !.voter_hash = voter_hash], budget)
    /\ UNCHANGED <<ledger, now, api, backup>>

(* lines 233-271: the insert; any exception is rolled back and printed *)
CliCommit(c) ==
    /\ last = NoEvent
    /\ cli[c].pc = "commit"
    /\ IF ConstraintsHold(ledger, cli[c].block)
       THEN /\ ledger' = Insert(ledger, cli[c].block)
            /\ CliReturn(c, cli[c], "success")
       ELSE /\ ledger' = rollback(ledger, cli[c].block)
            /\ CliReturn(c, cli[c],
                   "save failed: " \o IntegrityErrorText(ledger, cli[c].block))
    /\ UNCHANGED <<now, api, backup>>

(* the response or console outcome reaches its reader *)
Deliver ==
    /\ last /= NoEvent
    /\ last' = NoEvent
    /\ UNCHANGED <<ledger, now, api, cli, backup>>

(* the wall clock advances *)
Tick ==
    /\ last = NoEvent
    /\ now < MaxTime
    /\ now' = now + 1
    /\ UNCHANGED <<ledger, api, cli, last, backup>>

----------------------------------------------------------------------------
(* Specifications                                                          *)

(* compute_nonce called without a timeout: the scan ends at the first      *)
(* nonce that succeeds, which the modelled digests reach within one cycle  *)
NoTimeout == Len(LeadingZeros)

CliInputs ==
    Ballots \cup {<<"", "", "">>, <<"b", "", "">>, <<"b", "y", "">>}

Init ==
    /\ ledger = <<>>
    /\ now = 1
    /\ last = NoEvent
    /\ backup = NoBackup
    /\ \E running \in Deployments :
           /\ api = [w \in ApiProcs |->
                        IF w \in running THEN ApiIdle ELSE [ApiIdle EXCEPT !.pc = "off"]]
           /\ cli = [c \in CliProcs |->
                        IF c \in running THEN CliIdle ELSE [CliIdle EXCEPT !.pc = "off"]]

Next ==
    \/ \E w \in ApiProcs, vote_data \in VoteData : ApiVote(w, vote_data)
    \/ \E w \in ApiProcs : ApiCommit(w)
    \/ \E c \in CliProcs, b \in CliInputs, budget \in 0..NoTimeout :
           CliVote(c, b[1], b[2], b[3], budget)
    \/ \E c \in CliProcs : CliCommit(c)
    \/ Tick
    \/ Deliver

Spec == Init /\ [][Next]_vars

(* admissions executed one at a time: a request is taken up only when no   *)
(* other handler is between its reads and its insert                       *)
Quiet ==
    /\ \A w \in ApiProcs : api[w].pc /= "commit"
    /\ \A c \in CliProcs : cli[c].pc /= "commit"

SeqApiVote(w, vote_data) == Quiet /\ ApiVote(w, vote_data)

SeqCliVote(c, poll_id, choice, voter_id, budget) ==
    Quiet /\ CliVote(c, poll_id, choice, voter_id, budget)

NextSeq ==
    \/ \E w \in ApiProcs, vote_data \in VoteData : SeqApiVote(w, vote_data)
    \/ \E w \in ApiProcs : ApiCommit(w)
    \/ \E c \in CliProcs, b \in CliInputs, budget \in 0..NoTimeout :
           SeqCliVote(c, b[1], b[2], b[3], budget)
    \/ \E c \in CliProcs : CliCommit(c)
    \/ Tick
    \/ Deliver

SpecSeq == Init /\ [][NextSeq]_vars

----------------------------------------------------------------------------
(* GET /poll/{poll_id}/result and GET /poll/{poll_id}/audit (app/main.py)  *)

(* line 228: difficulty = 4 if poll_id.startswith("test_") else 18 *)
result_difficulty(poll_id) == IF startswith(poll_id, "test_") THEN 4 ELSE 18

(* line 286 *)
audit_difficulty(poll_id) ==
    IF startswith(poll_id, "test_") \/ startswith(poll_id, "audit_") THEN 4 ELSE 18

(* get_poll_result fails with 500 when the chain does not verify *)
get_poll_result_status(rows, poll_id) ==
    IF ~verify_chain_integrity(rows, poll_id, result_difficulty(poll_id))
    THEN 500 ELSE 200

(* the chain_valid field of the audit response *)
chain_valid(rows, poll_id) ==
    verify_chain_integrity(rows, poll_id, audit_difficulty(poll_id))

----------------------------------------------------------------------------
(* Properties                                                              *)

(* the rows of one (poll_id, voter_hash) pair *)
VotesFor(rows, poll_id, voter_hash) ==
    {i \in 1..Len(rows) :
        rows[i].poll_id = poll_id /\ rows[i].voter_hash = voter_hash}

(* the tip of a poll when the table had its first n rows *)
TipAt(n, poll_id) == get_latest_block_hash(SubSeq(ledger, 1, n), poll_id)

(* an insert was attempted and the database refused it *)
CommitRefused(e) ==
    \/ e.kind = "api" /\ e.phase = 2 /\ e.resp.status = 500
    \/ e.kind = "cli" /\ startswith(e.out, "save failed")

(* an insert was attempted and the row was written *)
CommitDone(e) ==
    \/ e.kind = "api" /\ e.phase = 2 /\ e.resp.status = 200
    \/ e.kind = "cli" /\ e.out = "success"

(* C1: under every interleaving of API /vote handlers and CLI handle_vote  *)
(* calls the table holds at most one block per (poll_id, voter_hash), and  *)
(* after an insert for a pair was attempted, written or refused, exactly   *)
(* one block of that pair is stored                                        *)
C1_OneBlockPerVoter ==
    /\ \A i, j \in 1..Len(ledger) :
           (ledger[i].poll_id = ledger[j].poll_id
                /\ ledger[i].voter_hash = ledger[j].voter_hash) => i = j
    /\ (CommitDone(last) \/ CommitRefused(last)) =>
           Cardinality(VotesFor(ledger, last.poll_id, last.voter_hash)) = 1

(* two commits for one pair raced and the second was refused *)
C1_Witness ==
    /\ CommitRefused(last)
    /\ Cardinality(VotesFor(ledger, last.poll_id, last.voter_hash)) = 1

(* C2: a Phase-2 insert that the uniqueness constraint on the pair refuses *)
(* is answered with HTTP 409 "already voted", and the table is unchanged   *)
C2_LostRaceIs409 ==
    [][\A w \in ApiProcs :
          (/\ api[w].pc = "commit"
           /\ api'[w].pc = "idle"
           /\ VotesFor(ledger, api[w].block.poll_id, api[w].block.voter_hash) /= {})
          => /\ last'.kind = "api"
             /\ last'.resp.status = 409
             /\ last'.resp.detail = "Voter has already voted in this poll"
             /\ ledger' = ledger]_vars

(* the blocks of every poll form a chain that starts at the genesis hash *)
Linked(rows, poll_id) ==
    LET blocks == PollBlocks(rows, poll_id)
    IN  \A i \in 1..Len(blocks) :
            blocks[i].prev_hash =
                IF i = 1 THEN GENESIS ELSE blocks[i - 1].block_hash

(* C3: in every reachable state, several writers included, every poll's    *)
(* first block has the genesis prev_hash and every later block has the     *)
(* block_hash of the block before it                                       *)
C3_ChainLinked == \A p \in Polls : Linked(ledger, p)

(* C4: once a block of a pair is stored, every /vote request with that     *)
(* pair, of either phase and any choice or nonce, is answered 409 and      *)
(* writes nothing; handle_vote on that pair stops at the duplicate check,  *)
(* before the nonce search                                                 *)
C4_VotedPairRejected ==
    [][/\ \A w \in ApiProcs, vote_data \in WellFormed :
              (/\ VotesFor(ledger, vote_data.poll_id, vote_data.voter_hash) /= {}
               /\ ApiVote(w, vote_data))
              => /\ last'.kind = "api"
                 /\ last'.resp.status = 409
                 /\ api'[w].pc = "idle"
                 /\ ledger' = ledger
       /\ \A c \in CliProcs, b \in Ballots, budget \in 0..NoTimeout :
              (/\ VotesFor(ledger, b[1], sha256_hexdigest(b[3])) /= {}
               /\ CliVote(c, b[1], b[2], b[3], budget))
              => /\ last'.kind = "cli"
                 /\ last'.out = "already voted"
                 /\ cli'[c].pc = "idle"
                 /\ ledger' = ledger]_vars

(* a Phase-2 submission for a stored pair was answered 409 *)
C4_Witness ==
    /\ last.kind = "api"
    /\ last.phase = 2
    /\ last.resp.status = 409
    /\ VotesFor(ledger, last.poll_id, last.voter_hash) /= {}

C6_CliCommitsOnCurrentTip ==
    (last.kind = "cli" /\ last.out = "success") =>
        ledger[Len(ledger)].prev_hash =
            TipAt(Len(ledger) - 1, ledger[Len(ledger)].poll_id)

(* C7: a Phase-2 submission whose nonce compute_nonce found for the        *)
(* client's fields, the tip that is still the poll's tip, a timestamp the  *)
(* client took and the admission difficulty is not answered 400            *)
C7_UnchangedTipNonceAccepted ==
    [][\A w \in ApiProcs, b \in Ballots, t \in Times :
          LET quoted == get_latest_block_hash(ledger, b[1])
              nonce == compute_nonce(b[1], sha256_hexdigest(b[3]), b[2],
                                     [t |-> t, aware |-> FALSE], quoted,
                                     admission_difficulty(b[1]), NoTimeout)
          IN  (/\ t <= now
               /\ nonce \in Nonces
               /\ ApiVote(w, Phase2Body(b, nonce)))
              => ~(last'.kind = "api" /\ last'.resp.status = 400)]_vars

(* C8: every stored block passes verify_pow on exactly its stored fields   *)
(* at the admission difficulty of its poll                                 *)
C8_StoredBlocksPassPow ==
    \A i \in 1..Len(ledger) :
        verify_pow(ledger[i].poll_id, ledger[i].voter_hash, ledger[i].choice,
                   ledger[i].timestamp, ledger[i].prev_hash, ledger[i].nonce,
                   admission_difficulty(ledger[i].poll_id))

(* C9: every stored block, read back, has block_hash equal to hash_block   *)
(* of its stored fields                                                    *)
C9_StoredHashMatches ==
    \A i \in 1..Len(ledger) :
        ledger[i].block_hash =
            hash_block(ledger[i].poll_id, ledger[i].voter_hash, ledger[i].choice,
                       ledger[i].timestamp, ledger[i].prev_hash, ledger[i].nonce)

(* C10: when admissions run one at a time, every poll's chain verifies at  *)
(* its admission difficulty, the audit reports chain_valid and the result  *)
(* endpoint does not fail                                                  *)
C10_SequentialChainVerifies ==
    \A p \in Polls :
        /\ verify_chain_integrity(ledger, p, admission_difficulty(p))
        /\ chain_valid(ledger, p)
        /\ get_poll_result_status(ledger, p) = 200

(* the difficulties the program verifies at: none, the result and audit    *)
(* value for test polls, the test admission value and the default          *)
DifficultyBits == {0, 4, 6, 18}

(* the stored fields an edit of one row replaces, with the values put in   *)
(* their place                                                             *)
TamperFields == {"prev_hash", "nonce", "choice", "block_hash"}

TamperValues(rows, field) ==
    IF field = "nonce" THEN 0..(MaxNonce + 1)
    ELSE IF field = "choice" THEN {"y", "n", "x"}
    ELSE {GENESIS, repeat("f", 64)} \cup {rows[j].block_hash : j \in 1..Len(rows)}
             \cup {rows[j].prev_hash : j \in 1..Len(rows)}

Tamper(rows, i, field, v) == [rows EXCEPT ![i][field] = v]

(* C11: when a poll's chain verifies at some difficulty, the table with    *)
(* one of prev_hash, nonce, choice, block_hash of one block of that poll   *)
(* replaced by a different value does not verify for that poll at that     *)
(* difficulty.  Every table content is first reached by the insert that    *)
(* wrote its last row, which is where the edits are tried.                 *)
C11_TamperDetected ==
    CommitDone(last) =>
        \A i \in 1..Len(ledger), bits \in DifficultyBits :
            verify_chain_integrity(ledger, ledger[i].poll_id, bits) =>
                \A field \in TamperFields :
                    \A v \in TamperValues(ledger, field) \ {ledger[i][field]} :
                        ~verify_chain_integrity(Tamper(ledger, i, field, v),
                                                ledger[i].poll_id, bits)

(* a chain of two blocks that verifies at its admission difficulty *)
C11_Witness ==
    /\ CommitDone(last)
    /\ Len(PollBlocks(ledger, last.poll_id)) = 2
    /\ verify_chain_integrity(ledger, last.poll_id, admission_difficulty(last.poll_id))

(* the rows of a poll by index, and the row of the poll inserted before i *)
PollRows(rows, poll_id) == {i \in 1..Len(rows) : rows[i].poll_id = poll_id}

Before(rows, i) ==
    {j \in PollRows(rows, rows[i].poll_id) : rows[j].id < rows[i].id}

expected_prev(rows, i) ==
    IF Before(rows, i) = {} THEN repeat("0", 64)
    ELSE rows[CHOOSE j \in Before(rows, i) :
                  \A k \in Before(rows, i) : rows[k].id <= rows[j].id].block_hash

(* every block of the poll passes the three checks of the walk *)
ChainValid(rows, poll_id, bits) ==
    \A i \in PollRows(rows, poll_id) :
        /\ verify_pow(rows[i].poll_id, rows[i].voter_hash, rows[i].choice,
                      rows[i].timestamp, rows[i].prev_hash, rows[i].nonce, bits)
        /\ rows[i].block_hash =
               hash_block(rows[i].poll_id, rows[i].voter_hash, rows[i].choice,
                          rows[i].timestamp, rows[i].prev_hash, rows[i].nonce)
        /\ rows[i].prev_hash = expected_prev(rows, i)

(* C12: verify_chain_integrity(poll, bits) is true exactly when every      *)
(* block of the poll, in id order from the genesis hash, passes verify_pow *)
(* at bits, carries the hash of its stored fields and has the block_hash   *)
(* of the block before it as prev_hash; a poll without blocks verifies     *)
C12_VerifyChainIffValid ==
    (CommitDone(last) \/ Len(ledger) = 0) =>
        \A p \in Polls \cup {"audit_none"}, bits \in DifficultyBits :
            verify_chain_integrity(ledger, p, bits) = ChainValid(ledger, p, bits)

(* a poll of two blocks whose second block does not continue the first,    *)
(* and which does not verify at difficulty 0                               *)
C12_Witness ==
    /\ CommitDone(last)
    /\ Len(PollBlocks(ledger, last.poll_id)) = 2
    /\ ~Linked(ledger, last.poll_id)
    /\ ~verify_chain_integrity(ledger, last.poll_id, 0)

----------------------------------------------------------------------------
(* compute_nonce and verify_pow called on their own (app/pow.py)           *)

Timestamps == {[t |-> t, aware |-> a] : t \in Times, a \in BOOLEAN}

PrevHashes == {GENESIS, sha256_hexdigest("x")}

(* one call of compute_nonce; last keeps the arguments and the result *)
PowSearch(b, timestamp, prev_hash, difficulty_bits, budget) ==
    /\ last = NoEvent
    /\ last' = [kind |-> "pow", poll_id |-> b[1],
                voter_hash |-> sha256_hexdigest(b[3]), choice |-> b[2],
                timestamp |-> timestamp, prev_hash |-> prev_hash,
                difficulty_bits |-> difficulty_bits, budget |-> budget,
                nonce |-> compute_nonce(b[1], sha256_hexdigest(b[3]), b[2], timestamp,
                                        prev_hash, difficulty_bits, budget)]
    /\ UNCHANGED <<ledger, now, api, cli, backup>>

NextPow ==
    \/ \E b \in Ballots, timestamp \in Timestamps, prev_hash \in PrevHashes,
          difficulty_bits \in DifficultyBits, budget \in 0..NoTimeout :
           PowSearch(b, timestamp, prev_hash, difficulty_bits, budget)
    \/ Deliver

SpecPow == Init /\ [][NextPow]_vars

(* C13: whenever compute_nonce returns a nonce and not None, verify_pow is *)
(* true for the same fields, that nonce and the same difficulty            *)
C13_SearchSound ==
    (last.kind = "pow" /\ last.nonce /= None) =>
        verify_pow(last.poll_id, last.voter_hash, last.choice, last.timestamp,
                   last.prev_hash, last.nonce, last.difficulty_bits)

(* a search at the default difficulty returned a nonce *)
C13_Witness ==
    /\ last.kind = "pow"
    /\ last.nonce /= None
    /\ last.difficulty_bits = 18

(* C14: a nonce compute_nonce returns is the smallest one that verifies,   *)
(* and every call with the same fields and difficulty that returns a nonce *)
(* returns that nonce, whatever its deadline                               *)
C14_SmallestNonce ==
    (last.kind = "pow" /\ last.nonce /= None) =>
        /\ \A m \in 0..(last.nonce - 1) :
               ~verify_pow(last.poll_id, last.voter_hash, last.choice, last.timestamp,
                           last.prev_hash, m, last.difficulty_bits)
        /\ \A budget \in 0..(NoTimeout + 1) :
               LET again == compute_nonce(last.poll_id, last.voter_hash, last.choice,
                                          last.timestamp, last.prev_hash,
                                          last.difficulty_bits, budget)
               IN  again /= None => again = last.nonce

(* a search returned a nonce after two candidates that did not verify *)
C14_Witness ==
    /\ last.kind = "pow"
    /\ last.nonce = 2

(* C15: the difficulty_target and the bit count a Phase-1 response names   *)
(* for a poll are those of the difficulty Phase 2 verifies that poll's     *)
(* submissions at, and the target handle_vote displays is that of the      *)
(* difficulty it searches and verifies with                                *)
C15_AnnouncedDifficultyIsUsed ==
    /\ (last.kind = "api" /\ last.phase = 1 /\ last.resp.status = 200) =>
           /\ last.resp.difficulty_target =
                  get_difficulty_target(admission_difficulty(last.poll_id))
           /\ last.resp.message =
                  "Compute nonce with " \o ToString(admission_difficulty(last.poll_id))
                      \o "-bit leading zero requirement"
    /\ \A c \in CliProcs :
           cli[c].pc = "commit" =>
               cli[c].difficulty_target =
                   get_difficulty_target(admission_difficulty(cli[c].poll_id))

(* the poll's row of greatest id *)
Newest(rows, poll_id) ==
    CHOOSE i \in PollRows(rows, poll_id) :
        \A j \in PollRows(rows, poll_id) : rows[j].id <= rows[i].id

(* C16: a /vote request without a nonce, or with a null nonce, leaves the  *)
(* table as it is, and for a pair without a block it is answered with, as  *)
(* prev_hash, the block_hash of the poll's most recently inserted block,   *)
(* or 64 characters "0" when the poll has no block                         *)
C16_QuoteReadOnly ==
    [][\A w \in ApiProcs, vote_data \in VoteData :
          (IsPhase1(vote_data) /\ ApiVote(w, vote_data))
          => /\ ledger' = ledger
             /\ api'[w].pc = "idle"
             /\ (/\ vote_data \in WellFormed
                 /\ VotesFor(ledger, vote_data.poll_id, vote_data.voter_hash) = {})
                => /\ last'.kind = "api"
                   /\ last'.resp.status = 200
                   /\ last'.resp.prev_hash =
                          IF PollRows(ledger, vote_data.poll_id) = {}
                          THEN "0000000000000000000000000000000000000000000000000000000000000000"
                          ELSE ledger[Newest(ledger, vote_data.poll_id)].block_hash]_vars

(* a quote for a poll of two blocks *)
C16_Witness ==
    /\ last.kind = "api"
    /\ last.phase = 1
    /\ last.resp.status = 200
    /\ Len(PollBlocks(ledger, last.poll_id)) = 2
    /\ last.resp.prev_hash = ledger[Len(ledger)].block_hash

(* C17: a /vote request whose body lacks poll_id, choice or voter_hash,    *)
(* with or without a nonce, is answered 422 with a detail that names a     *)
(* field the body lacks, and the table is unchanged                        *)
C17_MissingFieldIs422 ==
    [][\A w \in ApiProcs, vote_data \in VoteData :
          LET lacking == {"poll_id", "choice", "voter_hash"} \ DOMAIN vote_data
          IN  (lacking /= {} /\ ApiVote(w, vote_data))
              => /\ last'.kind = "api"
                 /\ last'.resp.status = 422
                 /\ \E f \in lacking :
                        last'.resp.detail = "Missing required field: " \o f
                 /\ ledger' = ledger
                 /\ api'[w].pc = "idle"]_vars

(* a body with a nonce and without voter_hash was answered 422 *)
C17_Witness ==
    /\ last.kind = "api"
    /\ last.phase = 2
    /\ last.resp.status = 422
    /\ last.resp.detail = "Missing required field: voter_hash"

(* the block_hash of the poll's newest row, or the genesis hash *)
CurrentTip(rows, poll_id) ==
    IF PollRows(rows, poll_id) = {} THEN repeat("0", 64)
    ELSE rows[Newest(rows, poll_id)].block_hash

(* the step is submit_vote of process w on vote_data: what ApiVote writes  *)
(* is compared first                                                       *)
ApiStep(w, vote_data) ==
    /\ last = NoEvent
    /\ api[w].pc = "idle"
    /\ IF last' = NoEvent
       THEN api'[w].pc = "commit" /\ api'[w].vote_data = vote_data
       ELSE /\ last'.kind = "api"
            /\ last'.proc = w
            /\ last'.poll_id = Get(vote_data, "poll_id")
            /\ last'.voter_hash = Get(vote_data, "voter_hash")
    /\ ApiVote(w, vote_data)

(* C18: a Phase-2 submission of a pair without a block whose nonce does    *)
(* not pass verify_pow against the poll's tip is answered 400 "Invalid     *)
(* proof of work"; the table, and with it the tip, is unchanged, the       *)
(* handler is finished with nothing left to retry, and the voter is not    *)
(* barred: the pair still has no block and a nonce that verifies exists    *)
C18_InvalidPowIs400 ==
    [][\A w \in ApiProcs, b \in Ballots, n \in Nonces :
          LET voter_hash == sha256_hexdigest(b[3])
              tip == CurrentTip(ledger, b[1])
              current_time == [t |-> now, aware |-> FALSE]
          IN  (/\ ApiStep(w, Phase2Body(b, n))
               /\ VotesFor(ledger, b[1], voter_hash) = {}
               /\ ~verify_pow(b[1], voter_hash, b[2], current_time, tip, n,
                              admission_difficulty(b[1])))
              => /\ last'.kind = "api"
                 /\ last'.resp.status = 400
                 /\ last'.resp.detail = "Invalid proof of work"
                 /\ ledger' = ledger
                 /\ CurrentTip(ledger', b[1]) = tip
                 /\ api'[w] = ApiIdle
                 /\ VotesFor(ledger', b[1], voter_hash) = {}
                 /\ \E m \in Nonces :
                        verify_pow(b[1], voter_hash, b[2], current_time, tip, m,
                                   admission_difficulty(b[1]))]_vars

(* a submission onto a poll that has a block was answered 400 *)
C18_Witness ==
    /\ last.kind = "api"
    /\ last.phase = 2
    /\ last.resp.status = 400
    /\ PollRows(ledger, last.poll_id) /= {}
    /\ VotesFor(ledger, last.poll_id, last.voter_hash) = {}

(* C19: when the insert of a commit fails, in submit_vote or handle_vote,  *)
(* the table afterwards holds exactly the rows it held before, and every   *)
(* poll's tip is what it was                                               *)
C19_FailedInsertRolledBack ==
    [][/\ \A w \in ApiProcs :
              (/\ api[w].pc = "commit"
               /\ api'[w].pc = "idle"
               /\ last'.kind = "api"
               /\ last'.resp.status = 500)
              => /\ ledger' = ledger
                 /\ \A p \in Polls : CurrentTip(ledger', p) = CurrentTip(ledger, p)
       /\ \A c \in CliProcs :
              (/\ cli[c].pc = "commit"
               /\ cli'[c].pc = "idle"
               /\ last'.kind = "cli"
               /\ startswith(last'.out, "save failed"))
              => /\ ledger' = ledger
                 /\ \A p \in Polls : CurrentTip(ledger', p) = CurrentTip(ledger, p)]_vars

(* an insert of handle_vote failed on a table of one row *)
C19_Witness ==
    /\ last.kind = "cli"
    /\ startswith(last.out, "save failed")
    /\ Len(ledger) = 1

(* the step is handle_vote of process c: what CliVote writes is compared   *)
(* first                                                                   *)
CliStep(c, poll_id, choice, voter_id, budget) ==
    /\ last = NoEvent
    /\ cli[c].pc = "idle"
    /\ IF last' = NoEvent
       THEN cli'[c].pc = "commit"
       ELSE last'.kind = "cli" /\ last'.proc = c /\ last'.poll_id = poll_id
    /\ CliVote(c, poll_id, choice, voter_id, budget)

(* C20: when the deadline of the search passes before a candidate that     *)
(* verifies was tested, compute_nonce returns None, and handle_vote then   *)
(* prints the timeout, returns with nothing kept and inserts nothing       *)
C20_TimeoutIsNotFound ==
    [][\A c \in CliProcs, b \in Ballots, budget \in 0..NoTimeout :
          LET voter_hash == sha256_hexdigest(b[3])
              tip == CurrentTip(ledger, b[1])
              timestamp == [t |-> now, aware |-> TRUE]
              difficulty == admission_difficulty(b[1])
          IN  (/\ CliStep(c, b[1], b[2], b[3], budget)
               /\ VotesFor(ledger, b[1], voter_hash) = {}
               /\ \A n \in 0..(budget - 1) :
                      ~verify_pow(b[1], voter_hash, b[2], timestamp, tip, n, difficulty))
              => /\ compute_nonce(b[1], voter_hash, b[2], timestamp, tip, difficulty,
                                  budget) = None
                 /\ last'.kind = "cli"
                 /\ last'.out = "nonce timeout"
                 /\ cli'[c] = CliIdle
                 /\ ledger' = ledger]_vars

(* a search onto a table of one row ran out of time *)
C20_Witness ==
    /\ last.kind = "cli"
    /\ last.out = "nonce timeout"
    /\ Len(ledger) = 1

----------------------------------------------------------------------------
(* compute_nonce one loop iteration at a time (app/pow.py lines 77-102),   *)
(* with the wall clock advancing while the loop runs                       *)

MaxTimeout == 2
MaxSpin == 2

(* the difficulties searched: those of DifficultyBits and one that no      *)
(* digest meets                                                            *)
ScanDifficulties == DifficultyBits \cup {HashBits}

(* timeout in clock units, or None *)
Timeouts == {None} \cup 0..MaxTimeout

(* a loop that never looks at the clock *)
deadline_never(timeout, start_time, clock) == FALSE

(* a test 'timeout is not None' in place of the truth value of timeout *)
deadline_not_none(timeout, start_time, clock) ==
    timeout /= None /\ (clock - start_time) > timeout

(* line 86: if timeout and (time.time() - start_time) > timeout; None and  *)
(* 0 are false                                                             *)
deadline_passed(timeout, start_time, clock) ==
    (timeout /= None /\ timeout /= 0) /\ (clock - start_time) > timeout

(* compute_nonce of process c returns nonce; tested is the number of       *)
(* candidates it hashed and found above the target                         *)
ScanReturn(c, f, nonce) ==
    /\ cli' = [cli EXCEPT ![c] = CliIdle]
    /\ last' = [kind |-> "scan", proc |-> c, poll_id |-> f.poll_id,
                voter_hash |-> f.voter_hash, choice |-> f.choice,
                timestamp |-> f.timestamp, prev_hash |-> f.prev_hash,
                difficulty_bits |-> f.difficulty_bits, timeout |-> f.timeout,
                tested |-> f.nonce, nonce |-> nonce]

(* lines 77-83: start_time = time.time(), nonce = 0 *)
ScanStart(c, b, timestamp, prev_hash, difficulty_bits, timeout) ==
    /\ last = NoEvent
    /\ cli[c].pc = "idle"
    /\ now <= MaxTime
    /\ cli' = [cli EXCEPT ![c] =
                  [pc |-> "scan", poll_id |-> b[1],
                   voter_hash |-> sha256_hexdigest(b[3]), choice |-> b[2],
                   timestamp |-> timestamp, prev_hash |-> prev_hash,
                   difficulty_bits |-> difficulty_bits, timeout |-> timeout,
                   start_time |-> now, nonce |-> 0, spin |-> 0]]
    /\ UNCHANGED <<ledger, now, api, last, backup>>

(* lines 85-102: one iteration of while True; spin counts the iterations   *)
(* since the clock last advanced                                           *)
ScanStep(c) ==
    /\ cli[c].pc = "scan"
    /\ cli[c].spin < MaxSpin
    /\ LET f == cli[c]
       IN  IF deadline_passed(f.timeout, f.start_time, now)
           THEN ScanReturn(c, f, None)
           ELSE IF hash_int(f.poll_id, f.voter_hash, f.choice, f.timestamp,
                            f.prev_hash, f.nonce)
                     < Pow2(HashBits - f.difficulty_bits)
           THEN ScanReturn(c, f, f.nonce)
           ELSE /\ cli' = [cli EXCEPT ![c].nonce = @ + 1, ![c].spin = @ + 1]
                /\ last' = last
    /\ UNCHANGED <<ledger, now, api, backup>>

(* the clock advances under a running loop: every search started by        *)
(* MaxTime sees its deadline pass                                          *)
ScanTick ==
    /\ now < MaxTime + MaxTimeout + 1
    /\ now' = now + 1
    /\ cli' = [c \in CliProcs |->
                  IF cli[c].pc = "scan" THEN [cli[c] EXCEPT !.spin = 0] ELSE cli[c]]
    /\ UNCHANGED <<ledger, api, last, backup>>

NextScan ==
    \/ \E c \in CliProcs, b \in Ballots, difficulty_bits \in ScanDifficulties,
          timeout \in Timeouts :
           ScanStart(c, b, [t |-> now, aware |-> TRUE], sha256_hexdigest("x"),
                     difficulty_bits, timeout)
    \/ \E c \in CliProcs : ScanStep(c)
    \/ ScanTick
    \/ Deliver

(* the loop keeps running and the clock keeps advancing *)
SpecScan ==
    /\ Init
    /\ [][NextScan]_vars
    /\ WF_vars(ScanTick)
    /\ \A c \in CliProcs : WF_vars(ScanStep(c))

(* C21: a search called with a positive timeout returns, a nonce or None,  *)
(* whatever its arguments, also when no nonce meets the difficulty         *)
C21_SearchReturns ==
    \A c \in CliProcs :
        (cli[c].pc = "scan" /\ cli[c].timeout > 0)
            ~> (/\ last.kind = "scan"
                /\ last.proc = c
                /\ (last.nonce = None \/ last.nonce >= 0))

(* a search at a difficulty no digest meets tested candidates and returned *)
(* None after its deadline                                                 *)
C21_Witness ==
    /\ last.kind = "scan"
    /\ last.difficulty_bits = HashBits
    /\ last.timeout > 0
    /\ last.tested > 0
    /\ last.nonce = None

(* the number of leading zero bits of a digest value of HashBits bits *)
RECURSIVE bit_length(_)
bit_length(x) == IF x = 0 THEN 0 ELSE 1 + bit_length(x \div 2)

leading_zero_bits(hash) == HashBits - bit_length(hash)

(* digest values at and next to every power of two *)
HashSamples ==
    {h \in UNION {{Pow2(k) - 1, Pow2(k)} : k \in 0..HashBits} : h < Pow2(HashBits)}

(* C22: compute_nonce stops at a candidate exactly when verify_pow accepts *)
(* that candidate at the same difficulty; both accept a digest exactly     *)
(* when its value is below 2 ** (width - difficulty_bits), which for every *)
(* difficulty from 0 to the width is when the digest has at least          *)
(* difficulty_bits leading zero bits, and at 0 every digest is accepted    *)
C22_SamePredicate ==
    /\ \A h \in HashSamples, bits \in 0..HashBits :
           /\ (h < Pow2(HashBits - bits)) = (leading_zero_bits(h) >= bits)
           /\ bits = 0 => h < Pow2(HashBits - bits)
    /\ [][\A c \in CliProcs :
             (/\ cli[c].pc = "scan"
              /\ ScanStep(c)
              /\ ~deadline_passed(cli[c].timeout, cli[c].start_time, now))
             => LET f == cli[c]
                    stopped == last'.kind = "scan" /\ last'.nonce = f.nonce
                    hash == hash_int(f.poll_id, f.voter_hash, f.choice, f.timestamp,
                                     f.prev_hash, f.nonce)
                    accepted == verify_pow(f.poll_id, f.voter_hash, f.choice,
                                           f.timestamp, f.prev_hash, f.nonce,
                                           f.difficulty_bits)
                IN  /\ stopped = accepted
                    /\ accepted = (hash < Pow2(HashBits - f.difficulty_bits))
                    /\ accepted = (leading_zero_bits(hash) >= f.difficulty_bits)
                    /\ f.difficulty_bits = 0 => accepted]_vars

(* a search at the test difficulty passed over a candidate and stopped at  *)
(* the next one verify_pow accepts                                         *)
C22_Witness ==
    /\ last.kind = "scan"
    /\ last.difficulty_bits = 6
    /\ last.nonce >= 1
    /\ verify_pow(last.poll_id, last.voter_hash, last.choice, last.timestamp,
                  last.prev_hash, last.nonce, 6)
    /\ ~verify_pow(last.poll_id, last.voter_hash, last.choice, last.timestamp,
                   last.prev_hash, last.nonce - 1, 6)

----------------------------------------------------------------------------
(* get_difficulty_target called on its own (app/pow.py lines 147-172)      *)

(* the width of a SHA-256 digest, line 142: 2 ** (256 - difficulty_bits) *)
DigestBits == 256

(* Python integers of any size: the hexadecimal digits, most significant   *)
(* first, without leading zeros                                            *)
hexval(ch) == CHOOSE v \in 0..15 : SubSeq(HexDigits, v + 1, v + 1) = ch

RECURSIVE strip(_)
strip(digits) ==
    IF digits = <<>> THEN <<>>
    ELSE IF digits[1] = 0 THEN strip(Tail(digits)) ELSE digits

(* int(s, 16) *)
int16(s) == strip([i \in 1..Len(s) |-> hexval(SubSeq(s, i, i))])

(* 2 ** n *)
pow2_big(n) == <<Pow2(n % 4)>> \o [i \in 1..(n \div 4) |-> 0]

(* a < b *)
big_less(a, b) ==
    \/ Len(a) < Len(b)
    \/ /\ Len(a) = Len(b)
       /\ \E i \in 1..Len(a) : a[i] < b[i] /\ \A j \in 1..(i - 1) : a[j] = b[j]

(* a + 1 *)
RECURSIVE big_succ(_)
big_succ(a) ==
    IF a = <<>> THEN <<1>>
    ELSE IF a[Len(a)] < 15 THEN [a EXCEPT ![Len(a)] = @ + 1]
    ELSE big_succ(SubSeq(a, 1, Len(a) - 1)) \o <<0>>

(* line 142: target = 2 ** (256 - difficulty_bits) *)
target(difficulty_bits) == pow2_big(DigestBits - difficulty_bits)

(* one call of get_difficulty_target *)
TargetCall(difficulty_bits) ==
    /\ last = NoEvent
    /\ last' = [kind |-> "target", difficulty_bits |-> difficulty_bits,
                difficulty_target |-> get_difficulty_target(difficulty_bits)]
    /\ UNCHANGED <<ledger, now, api, cli, backup>>

NextTarget ==
    \/ \E difficulty_bits \in 0..DigestBits : TargetCall(difficulty_bits)
    \/ Deliver

SpecTarget == Init /\ [][NextTarget]_vars

(* C23: a higher difficulty has a strictly smaller target: for             *)
(* 0 <= b1 < b2 <= 256 both 2 ** (256 - b1) > 2 ** (256 - b2) and          *)
(* int(get_difficulty_target(b1), 16) > int(get_difficulty_target(b2), 16) *)
C23_TargetDecreases ==
    last.kind = "target" =>
        \A b2 \in (last.difficulty_bits + 1)..DigestBits :
            /\ big_less(target(b2), target(last.difficulty_bits))
            /\ big_less(int16(get_difficulty_target(b2)), int16(last.difficulty_target))

(* the target of a difficulty inside a byte, above that of the next bit *)
C23_Witness ==
    /\ last.kind = "target"
    /\ last.difficulty_bits = 17
    /\ big_less(int16(get_difficulty_target(18)), int16(last.difficulty_target))

(* byte j of a hexadecimal string, as a number *)
byte_at(s, j) == 16 * hexval(SubSeq(s, 2 * j - 1, 2 * j - 1)) + hexval(SubSeq(s, 2 * j, 2 * j))

----------------------------------------------------------------------------
(* GET /poll/{poll_id}/result (app/main.py lines 209-248)                  *)

EmptyDict == [c \in {} |-> 0]

(* a count that records a choice without adding to it *)
RECURSIVE count_choices_seen(_, _, _)
count_choices_seen(blocks, i, choice_counts) ==
    IF i > Len(blocks) THEN choice_counts
    ELSE count_choices_seen(blocks, i + 1,
             [c \in DOMAIN choice_counts \cup {blocks[i].choice} |->
                 IF c = blocks[i].choice THEN 1 ELSE choice_counts[c]])

(* lines 240-242: choice_counts[block.choice] =                            *)
(* choice_counts.get(block.choice, 0) + 1 for every block                  *)
RECURSIVE count_choices(_, _, _)
count_choices(blocks, i, choice_counts) ==
    IF i > Len(blocks) THEN choice_counts
    ELSE LET choice == blocks[i].choice
             got == IF choice \in DOMAIN choice_counts THEN choice_counts[choice] ELSE 0
         IN  count_choices(blocks, i + 1,
                 [c \in DOMAIN choice_counts \cup {choice} |->
                     IF c = choice THEN got + 1 ELSE choice_counts[c]])

(* a handler that counts without verifying the chain *)
get_poll_result_unverified(rows, poll_id) ==
    LET blocks == PollBlocks(rows, poll_id)
    IN  [status |-> 200, detail |-> "", poll_id |-> poll_id,
         total_votes |-> Len(blocks), choices |-> count_choices(blocks, 1, EmptyDict)]

get_poll_result(rows, poll_id) ==
    LET difficulty == result_difficulty(poll_id)
        blocks == PollBlocks(rows, poll_id)
    IN  IF ~verify_chain_integrity(rows, poll_id, difficulty)
        THEN [status |-> 500, detail |-> "Chain integrity compromised"]
        ELSE [status |-> 200, detail |-> "", poll_id |-> poll_id,
              total_votes |-> Len(blocks),
              choices |-> count_choices(blocks, 1, EmptyDict)]

(* the polls asked about: those voted in and one nobody voted in *)
ReadPolls == Polls \cup {"test_none"}

(* one request GET /poll/{poll_id}/result answered by API process w *)
GetPollResult(w, poll_id) ==
    /\ last = NoEvent
    /\ api[w].pc = "idle"
    /\ last' = [kind |-> "result", proc |-> w, poll_id |-> poll_id,
                resp |-> get_poll_result(ledger, poll_id)]
    /\ UNCHANGED <<ledger, now, api, cli, backup>>

NextRead ==
    \/ \E w \in ApiProcs, vote_data \in VoteData : SeqApiVote(w, vote_data)
    \/ \E w \in ApiProcs : ApiCommit(w)
    \/ \E c \in CliProcs, b \in CliInputs, budget \in 0..NoTimeout :
           SeqCliVote(c, b[1], b[2], b[3], budget)
    \/ \E c \in CliProcs : CliCommit(c)
    \/ \E w \in ApiProcs, poll_id \in ReadPolls : GetPollResult(w, poll_id)
    \/ Tick
    \/ Deliver

SpecRead == Init /\ [][NextRead]_vars

(* C25: a result that is not an error gives total_votes = the number of    *)
(* blocks of the poll and, for every choice that has a block, the number   *)
(* of blocks of the poll with that choice; the counts add up to            *)
(* total_votes, every (poll_id, voter_hash) pair of the poll adds exactly  *)
(* one, blocks of other polls add nothing, and a poll without blocks has   *)
(* total_votes 0 and no choices                                            *)
C25_ResultCounts ==
    (last.kind = "result" /\ last.resp.status = 200) =>
        LET p == last.poll_id
            mine == PollRows(ledger, p)
            choices == last.resp.choices
            voters == {ledger[i].voter_hash : i \in mine}
            sum == Cardinality({<<c, k>> \in (DOMAIN choices) \X (1..Len(ledger)) :
                                    k <= choices[c]})
        IN  /\ last.resp.total_votes = Cardinality(mine)
            /\ DOMAIN choices = {ledger[i].choice : i \in mine}
            /\ \A c \in DOMAIN choices :
                   choices[c] = Cardinality({i \in mine : ledger[i].choice = c})
            /\ sum = last.resp.total_votes
            /\ last.resp.total_votes = Cardinality(voters)
            /\ \A v \in voters : Cardinality(VotesFor(ledger, p, v)) = 1
            /\ mine = {} => last.resp.total_votes = 0 /\ choices = EmptyDict

(* the result of a poll with two votes for one choice *)
C25_Witness ==
    /\ last.kind = "result"
    /\ last.resp.status = 200
    /\ last.resp.total_votes = 2
    /\ \E c \in DOMAIN last.resp.choices : last.resp.choices[c] = 2

(* C26: a result carries counts only when verify_chain_integrity holds for *)
(* the poll at the difficulty of the result endpoint; otherwise the        *)
(* request fails with status 500 and 'Chain integrity compromised' and     *)
(* carries no counts                                                       *)
C26_ResultOnlyIfVerified ==
    last.kind = "result" =>
        LET verified == verify_chain_integrity(ledger, last.poll_id,
                                               result_difficulty(last.poll_id))
        IN  /\ (last.resp.status = 200) = verified
            /\ verified => {"total_votes", "choices"} \subseteq DOMAIN last.resp
            /\ ~verified =>
                   /\ last.resp.status = 500
                   /\ last.resp.detail = "Chain integrity compromised"
                   /\ {"total_votes", "choices"} \cap DOMAIN last.resp = {}

(* the result of a poll whose only block does not verify was refused *)
C26_Witness ==
    /\ last.kind = "result"
    /\ last.resp.status = 500
    /\ Len(PollBlocks(ledger, last.poll_id)) = 1

----------------------------------------------------------------------------
(* SQLManager.verify_blockchain_integrity (app/sql_functions.py 215-261)   *)

(* lines 233-246: the walk over all blocks in id order; prev_hash_map is   *)
(* poll_id -> the block_hash last seen, errors the messages appended       *)
RECURSIVE integrity_walk(_, _, _, _)
integrity_walk(blocks, i, prev_hash_map, errors) ==
    IF i > Len(blocks) THEN errors
    ELSE LET block == blocks[i]
             poll_id == block.poll_id
             found ==
                 IF block.prev_hash /= repeat("0", 64)
                 THEN IF poll_id \notin DOMAIN prev_hash_map
                      THEN {[kind |-> "no previous block", id |-> block.id]}
                      ELSE IF prev_hash_map[poll_id] /= block.prev_hash
                      THEN {[kind |-> "wrong previous hash", id |-> block.id]}
                      ELSE {}
                 ELSE {}
         IN  integrity_walk(blocks, i + 1,
                 [p \in DOMAIN prev_hash_map \cup {poll_id} |->
                     IF p = poll_id THEN block.block_hash ELSE prev_hash_map[p]],
                 errors \cup found)

(* lines 249-259: the (poll_id, voter_hash) groups counting more than 1 *)
duplicates(rows) ==
    {g \in {<<rows[i].poll_id, rows[i].voter_hash>> : i \in 1..Len(rows)} :
        Cardinality(VotesFor(rows, g[1], g[2])) > 1}

verify_blockchain_integrity(rows) ==
    IF Len(rows) = 0 THEN [valid |-> TRUE, errors |-> {}]
    ELSE LET errors ==
                 integrity_walk(rows, 1, EmptyDict, {})
                     \cup {[kind |-> "duplicate vote", poll_id |-> g[1],
                            voter_hash |-> g[2]] : g \in duplicates(rows)}
         IN  [valid |-> errors = {}, errors |-> errors]

(* C27: verify_blockchain_integrity records an error for every block whose *)
(* prev_hash is not the block_hash of the block before it in its poll (the *)
(* genesis hash for the first block of a poll), one error for every        *)
(* (poll_id, voter_hash) pair with more than one block, and answers valid  *)
(* exactly when it recorded no error                                       *)
C27_IntegrityFindsEveryBreak ==
    (CommitDone(last) \/ Len(ledger) = 0) =>
        LET r == verify_blockchain_integrity(ledger)
        IN  /\ \A i \in 1..Len(ledger) :
                   (ledger[i].prev_hash /= expected_prev(ledger, i))
                       => (\E e \in r.errors : e.kind /= "duplicate vote" /\ e.id = ledger[i].id)
            /\ \A g \in duplicates(ledger) :
                   Cardinality({e \in r.errors : e.kind = "duplicate vote"
                                    /\ e.poll_id = g[1] /\ e.voter_hash = g[2]}) = 1
            /\ r.valid = (r.errors = {})

----------------------------------------------------------------------------
(* hash_block called on its own (app/pow.py lines 14-45)                   *)

(* poll ids and voter hashes are strings the caller chooses: a poll id     *)
(* that continues another one, and voter hashes next to the digests of     *)
(* the voter ids                                                           *)
HashPolls == {"test_a", "test_ab"}

HashVoters == {sha256_hexdigest(v) : v \in VoterIds} \cup {"c0", "bc0"}

HashChoices == {"y", "n"}

(* the six arguments of one call *)
HashInputs ==
    [poll_id : HashPolls, voter_hash : HashVoters, choice : HashChoices,
     timestamp : Timestamps, prev_hash : PrevHashes, nonce : Nonces]

HashFields == {"poll_id", "voter_hash", "choice", "timestamp", "prev_hash", "nonce"}

block_data_of(x) ==
    block_data(x.poll_id, x.voter_hash, x.choice, x.timestamp, x.prev_hash, x.nonce)

hash_block_of(x) ==
    hash_block(x.poll_id, x.voter_hash, x.choice, x.timestamp, x.prev_hash, x.nonce)

(* one call of hash_block; last keeps the arguments and the digest *)
HashCall(x) ==
    /\ last = NoEvent
    /\ last' = [kind |-> "hash", args |-> x, block_data |-> block_data_of(x),
                block_hash |-> hash_block_of(x)]
    /\ UNCHANGED <<ledger, now, api, cli, backup>>

NextHash ==
    \/ \E x \in HashInputs : HashCall(x)
    \/ Deliver

SpecHash == Init /\ [][NextHash]_vars

(* C28: the six fields are serialised injectively: two calls that differ   *)
(* in one or more fields, poll_id and voter_hash together for one, never   *)
(* have the same concatenated preimage or the same block_hash              *)
C28_PreimageInjective ==
    last.kind = "hash" =>
        \A y \in HashInputs :
            y /= last.args =>
                /\ block_data_of(y) /= last.block_data
                /\ hash_block_of(y) /= last.block_hash

(* C29: hash_block gives the same digest for the same six fields, and with *)
(* five fields fixed a different value of the sixth gives a different      *)
(* preimage and a different digest                                         *)
C29_OneFieldChanges ==
    last.kind = "hash" =>
        /\ last.block_hash = hash_block_of(last.args)
        /\ \A y \in HashInputs :
               Cardinality({f \in HashFields : y[f] /= last.args[f]}) = 1 =>
                   /\ block_data_of(y) /= last.block_data
                   /\ hash_block_of(y) /= last.block_hash

(* a call whose poll_id continues another poll id, the rest being equal *)
C29_Witness ==
    /\ last.kind = "hash"
    /\ last.args.poll_id = "test_ab"
    /\ [last.args EXCEPT !.poll_id = "test_a"] \in HashInputs
    /\ last.block_hash /= hash_block_of([last.args EXCEPT !.poll_id = "test_a"])

----------------------------------------------------------------------------
(* GET /poll/{poll_id}/audit (app/main.py lines 251-293) and the database  *)
(* management menu of the console application (app/cli.py lines 461-675,   *)
(* app/sql_functions.py)                                                   *)

(* lines 270-283: the blocks of the poll as dictionaries *)
block_dicts(rows, poll_id) ==
    LET blocks == PollBlocks(rows, poll_id)
    IN  [i \in 1..Len(blocks) |->
            [blocks[i] EXCEPT !.timestamp = isoformat(blocks[i].timestamp)]]

GetPollAudit(w, poll_id) ==
    /\ last = NoEvent
    /\ api[w].pc = "idle"
    /\ last' = [kind |-> "audit", proc |-> w, poll_id |-> poll_id,
                blocks |-> block_dicts(ledger, poll_id),
                chain_valid |-> chain_valid(ledger, poll_id)]
    /\ UNCHANGED <<ledger, now, api, cli, backup>>

(* the console reports what a menu entry did *)
ConsoleOut(c, out) == [kind |-> "console", proc |-> c, out |-> out]

(* handle_integrity_check: SQLManager.verify_blockchain_integrity() *)
IntegrityCheck(c) ==
    /\ last = NoEvent
    /\ cli[c].pc = "idle"
    /\ last' = [ConsoleOut(c, "integrity") EXCEPT
                   !.out = IF verify_blockchain_integrity(ledger).valid
                           THEN "integrity ok" ELSE "integrity errors"]
    /\ UNCHANGED <<ledger, now, api, cli, backup>>

(* handle_db_init answered yes: SQLManager.init_database() runs            *)
(* DROP TABLE IF EXISTS blocks and creates the table again                 *)
InitDatabase(c) ==
    /\ last = NoEvent
    /\ cli[c].pc = "idle"
    /\ ledger' = <<>>
    /\ last' = ConsoleOut(c, "initialised")
    /\ UNCHANGED <<now, api, cli, backup>>

(* handle_db_backup: SQLManager.backup_database() copies the database file *)
BackupDatabase(c) ==
    /\ last = NoEvent
    /\ cli[c].pc = "idle"
    /\ backup' = [exists |-> TRUE, rows |-> ledger]
    /\ last' = ConsoleOut(c, "backup written")
    /\ UNCHANGED <<ledger, now, api, cli>>

(* SQLManager.restore_database(backup_path): the backup file is copied     *)
(* over the database file; FileNotFoundError when there is none            *)
RestoreDatabase(c) ==
    /\ last = NoEvent
    /\ cli[c].pc = "idle"
    /\ IF ~backup.exists
       THEN /\ ledger' = ledger
            /\ last' = ConsoleOut(c, "backup not found")
       ELSE /\ ledger' = backup.rows
            /\ last' = ConsoleOut(c, "restored")
    /\ UNCHANGED <<now, api, cli, backup>>

(* handle_audit_log: an empty poll id is refused, a poll without blocks is *)
(* reported as not found; otherwise the header, the table of the poll's    *)
(* blocks in id order and then the integrity panel of lines 397-403 are    *)
(* printed                                                                 *)
handle_audit_log(rows, poll_id) ==
    LET blocks == PollBlocks(rows, poll_id)
    IN  IF poll_id = ""
        THEN [out |-> "poll id required", total |-> 0, panel |-> FALSE]
        ELSE IF blocks = <<>>
        THEN [out |-> "not found", total |-> 0, panel |-> FALSE]
        ELSE [out |-> "audit log", total |-> Len(blocks), panel |-> TRUE]

HandleAuditLog(c, poll_id) ==
    /\ last = NoEvent
    /\ cli[c].pc = "idle"
    /\ last' = [kind |-> "auditlog", proc |-> c, poll_id |-> poll_id,
                shown |-> handle_audit_log(ledger, poll_id)]
    /\ UNCHANGED <<ledger, now, api, cli, backup>>

(* the console application with its database management menu, next to an  *)
(* API process answering result and audit requests                         *)
NextOps ==
    \/ \E c \in CliProcs, b \in CliInputs, budget \in 0..NoTimeout :
           SeqCliVote(c, b[1], b[2], b[3], budget)
    \/ \E c \in CliProcs : CliCommit(c)
    \/ \E w \in ApiProcs, poll_id \in ReadPolls : GetPollResult(w, poll_id)
    \/ \E w \in ApiProcs, poll_id \in ReadPolls : GetPollAudit(w, poll_id)
    \/ \E c \in CliProcs, poll_id \in ReadPolls \cup {""} : HandleAuditLog(c, poll_id)
    \/ \E c \in CliProcs : IntegrityCheck(c)
    \/ \E c \in CliProcs : InitDatabase(c)
    \/ \E c \in CliProcs : BackupDatabase(c)
    \/ \E c \in CliProcs : RestoreDatabase(c)
    \/ Deliver

SpecOps == Init /\ [][NextOps]_vars

(* C30: no operation changes or removes a block that was committed: every  *)
(* step keeps the rows there are, and the table changes only by one row    *)
(* added at its end by an insert that succeeded                            *)
C30_LedgerAppendOnly ==
    [][/\ Len(ledger') >= Len(ledger)
       /\ SubSeq(ledger', 1, Len(ledger)) = ledger
       /\ ledger' /= ledger =>
              /\ Len(ledger') = Len(ledger) + 1
              /\ CommitDone(last')]_vars

----------------------------------------------------------------------------
(* the difficulties compared: those the program verifies at and the full   *)
(* width                                                                   *)
AuditDifficulties == DifficultyBits \cup {HashBits}

(* C31: verify_pow is monotone in the difficulty: a nonce accepted at b is *)
(* accepted at every b' <= b, and a poll whose chain verifies at b         *)
(* verifies at every b' <= b                                               *)
C31_MonotoneInDifficulty ==
    CommitDone(last) =>
        \A b \in AuditDifficulties, lower \in AuditDifficulties :
            lower <= b =>
                /\ \A i \in 1..Len(ledger), nonce \in Nonces :
                       LET r == ledger[i]
                       IN  verify_pow(r.poll_id, r.voter_hash, r.choice, r.timestamp,
                                      r.prev_hash, nonce, b)
                               => verify_pow(r.poll_id, r.voter_hash, r.choice,
                                             r.timestamp, r.prev_hash, nonce, lower)
                /\ \A p \in Polls :
                       verify_chain_integrity(ledger, p, b)
                           => verify_chain_integrity(ledger, p, lower)

(* a chain of two blocks that verifies at its admission difficulty 6 and   *)
(* at 4, and not at the default difficulty 18                              *)
C31_Witness ==
    /\ CommitDone(last)
    /\ Len(PollBlocks(ledger, last.poll_id)) = 2
    /\ verify_chain_integrity(ledger, last.poll_id, 6)
    /\ verify_chain_integrity(ledger, last.poll_id, 4)
    /\ ~verify_chain_integrity(ledger, last.poll_id, 18)

(* C32: submit_vote reports the first defect in a fixed order: a missing   *)
(* required field is 422 whatever else is wrong, then a pair that has a    *)
(* block is 409 whatever nonce comes with it, then a nonce that does not   *)
(* verify is 400; and every response that is an error leaves the table as *)
(* it was                                                                  *)
C32_ChecksInFixedOrder ==
    [][/\ \A w \in ApiProcs, vote_data \in VoteData :
             ApiStep(w, vote_data) =>
                 IF MissingFields(vote_data) /= {}
                 THEN last'.kind = "api" /\ last'.resp.status = 422
                 ELSE IF VotesFor(ledger, vote_data.poll_id, vote_data.voter_hash) /= {}
                 THEN last'.kind = "api" /\ last'.resp.status = 409
                 ELSE IF IsPhase1(vote_data)
                 THEN last'.kind = "api" /\ last'.resp.status = 200
                 ELSE IF ~verify_pow(vote_data.poll_id, vote_data.voter_hash,
                                     vote_data.choice, [t |-> now, aware |-> FALSE],
                                     CurrentTip(ledger, vote_data.poll_id),
                                     vote_data.nonce,
                                     admission_difficulty(vote_data.poll_id))
                 THEN last'.kind = "api" /\ last'.resp.status = 400
                 ELSE last' = NoEvent
       /\ (last = NoEvent /\ last'.kind = "api" /\ last'.resp.status /= 200)
              => ledger' = ledger]_vars

(* a request without its choice, for a pair that has a block, was answered *)
(* 422                                                                     *)
C32_Witness ==
    /\ last.kind = "api"
    /\ last.resp.status = 422
    /\ last.voter_hash /= ""
    /\ VotesFor(ledger, last.poll_id, last.voter_hash) /= {}

(* C33: the chains of different polls are independent: an insert into poll *)
(* p changes, for every other poll q, neither the tip nor the outcome of   *)
(* verify_chain_integrity at any difficulty nor the result, and a voter    *)
(* with a block in p and none in q is not refused as a duplicate in q      *)
C33_PollsIndependent ==
    [][/\ (CommitDone(last') /\ ledger' /= ledger) =>
              \A q \in ReadPolls \ {last'.poll_id} :
                  /\ get_latest_block_hash(ledger', q) = get_latest_block_hash(ledger, q)
                  /\ \A bits \in DifficultyBits :
                         verify_chain_integrity(ledger', q, bits)
                             = verify_chain_integrity(ledger, q, bits)
                  /\ get_poll_result(ledger', q) = get_poll_result(ledger, q)
       /\ \A w \in ApiProcs, vote_data \in WellFormed :
              (/\ ApiStep(w, vote_data)
               /\ VotesFor(ledger, vote_data.poll_id, vote_data.voter_hash) = {}
               /\ last' /= NoEvent)
                  => last'.resp.status /= 409]_vars

(* the table holds a block of one voter in each of two polls *)
C33_Witness ==
    /\ CommitDone(last)
    /\ Len(ledger) = 2
    /\ ledger[1].voter_hash = ledger[2].voter_hash
    /\ ledger[1].poll_id /= ledger[2].poll_id

----------------------------------------------------------------------------
(* tables written through the session, as                                  *)
(* TestPollAuditEndpoint.test_poll_audit_with_blocks writes them           *)
(* (tests/test_api.py lines 230-270), read by the result and audit         *)
(* endpoints                                                               *)

FixturePolls == {"audit_poll", "test_a", "b"}

(* lines 243-269: compute_nonce at the difficulty of the fixture, nonce 42 *)
(* when it returns None, hash_block, session.add on the poll's chain       *)
SessionAdd(poll_id, voter_hash, choice, difficulty_bits) ==
    /\ last = NoEvent
    /\ Len(ledger) < MaxBlocks
    /\ LET prev_hash == get_latest_block_hash(ledger, poll_id)
           timestamp == [t |-> now, aware |-> FALSE]
           found == compute_nonce(poll_id, voter_hash, choice, timestamp, prev_hash,
                                  difficulty_bits, NoTimeout)
           nonce == IF found = None THEN 42 ELSE found
           block == Block(poll_id, voter_hash, choice, timestamp, prev_hash, nonce,
                          hash_block(poll_id, voter_hash, choice, timestamp,
                                     prev_hash, nonce))
       IN  /\ ConstraintsHold(ledger, block)
           /\ ledger' = Insert(ledger, block)
    /\ UNCHANGED <<now, api, cli, last, backup>>

NextAudit ==
    \/ \E poll_id \in FixturePolls, v \in VoterIds, choice \in HashChoices,
          difficulty_bits \in DifficultyBits :
           SessionAdd(poll_id, sha256_hexdigest(v), choice, difficulty_bits)
    \/ \E w \in ApiProcs, poll_id \in FixturePolls : GetPollResult(w, poll_id)
    \/ \E w \in ApiProcs, poll_id \in FixturePolls : GetPollAudit(w, poll_id)
    \/ Deliver

SpecAudit == Init /\ [][NextAudit]_vars

(* C34: for every poll and every table, GET /poll/{id}/result succeeds     *)
(* exactly when GET /poll/{id}/audit reports chain_valid true; the audit   *)
(* itself always answers, with all blocks of the poll in insertion order   *)
C34_ResultAgreesWithAudit ==
    last.kind = "audit" =>
        /\ (get_poll_result(ledger, last.poll_id).status = 200) = last.chain_valid
        /\ Len(last.blocks) = Cardinality(PollRows(ledger, last.poll_id))
        /\ \A i \in 1..Len(last.blocks) :
               /\ last.blocks[i].poll_id = last.poll_id
               /\ i > 1 => last.blocks[i - 1].id < last.blocks[i].id

(* the table without the blocks of the poll after its first k *)
KeepFirst(rows, poll_id, k) ==
    LET kept == {i \in PollRows(rows, poll_id) :
                    Cardinality({j \in PollRows(rows, poll_id) : j <= i}) <= k}
        keep == {i \in 1..Len(rows) : rows[i].poll_id /= poll_id \/ i \in kept}
        nth(n) == CHOOSE i \in keep : Cardinality({j \in keep : j <= i}) = n
    IN  [n \in 1..Cardinality(keep) |-> rows[nth(n)]]

(* C35: when the chain of a poll verifies at a difficulty, so does the     *)
(* chain of its first k blocks for every k from 0 to its length: the walk  *)
(* does not notice that the most recent blocks were removed                *)
C35_PrefixClosed ==
    CommitDone(last) =>
        \A p \in Polls, bits \in DifficultyBits :
            verify_chain_integrity(ledger, p, bits) =>
                \A k \in 0..Len(PollBlocks(ledger, p)) :
                    /\ Len(PollBlocks(KeepFirst(ledger, p, k), p)) = k
                    /\ verify_chain_integrity(KeepFirst(ledger, p, k), p, bits)

(* a chain of two blocks that verifies, and so does its first block alone *)
C35_Witness ==
    /\ CommitDone(last)
    /\ Len(PollBlocks(ledger, last.poll_id)) = 2
    /\ verify_chain_integrity(ledger, last.poll_id, 4)
    /\ verify_chain_integrity(KeepFirst(ledger, last.poll_id, 1), last.poll_id, 4)

C37_PanelOnlyIfVerified ==
    (last.kind = "auditlog" /\ last.shown.panel) =>
        \E bits \in DifficultyBits :
            verify_chain_integrity(ledger, last.poll_id, bits)
====
